---- MODULE Spec2Model ----
(***************************************************************************)
(* A model of api/analytics.py: the pure helpers p95, to_number and        *)
(* extract_uptime_percent, and the HTTP handler (do_OPTIONS, do_POST).     *)
(*                                                                         *)
(* Numbers.  Python floats are modelled exactly, as integers counting      *)
(* thousandths (Milli): 1.5 is 1500, 180 is 180000.  Quotients (means,     *)
(* the interpolated percentile) are reduced fractions [n, d] of those.     *)
(* Floating-point rounding, NaN and the infinities are not modelled.       *)
(*                                                                         *)
(* Values.  A JSON / Python value is a tagged record:                      *)
(*   [t |-> "none"]                      None / null                       *)
(*   [t |-> "int",   n |-> i]            an int                            *)
(*   [t |-> "float", m |-> thousandths]  a float                           *)
(*   [t |-> "str",   s |-> <<chars>>]    a str, as its characters          *)
(*   [t |-> "list",  items |-> <<...>>]  a list                            *)
(*   [t |-> "dict",  d |-> function]     a dict, keys are strings          *)
(***************************************************************************)
EXTENDS Integers, Sequences, FiniteSets, TLC

VARIABLES
    \* ---- the HTTP handler ----
    file,           \* the data file on disk (DATA_FILE), read-only
    pc,             \* position of the handler in the current request
    request,        \* the request being served
    body,           \* do_POST: body
    regions,        \* do_POST: regions
    threshold_ms,   \* do_POST: threshold_ms (thousandths)
    records,        \* do_POST: records
    idx,            \* do_POST: number of elements of regions already looped over
    region_records, \* do_POST: region_records of the last iteration
    latencies,      \* do_POST: latencies of the last iteration
    uptimes,        \* do_POST: uptimes of the last iteration
    regions_out,    \* do_POST: regions_out
    wire,           \* what the handler has written to the connection, in order
    \* ---- p95 called on its own ----
    p_values,       \* the argument
    p_pc,           \* "input" before the call, "done" after
    p_result,       \* the value returned
    p_swaps,        \* how many times the argument was reordered and p95 called again
    \* ---- the record extractors called on their own ----
    r_rec,          \* the record
    r_pc,           \* "input", "latency" (latency extracted), "uptime" (both extracted)
    r_latency,      \* the extracted latency
    r_uptime        \* the extracted uptime percentage

hvars == <<file, pc, request, body, regions, threshold_ms, records, idx,
           region_records, latencies, uptimes, regions_out, wire>>
pvars == <<p_values, p_pc, p_result, p_swaps>>
rvars == <<r_rec, r_pc, r_latency, r_uptime>>
vars == <<hvars, pvars, rvars>>

-----------------------------------------------------------------------------
(* Bounds of the model *)

MaxRegions == 2     \* longest requested regions list
MaxRecs == 2        \* longest dataset
MaxLen == 3         \* longest exhaustively enumerated p95 argument
MaxLong == 21       \* longest patterned p95 argument
MaxSwaps == 1       \* reorderings of a p95 argument
MaxFields == 2      \* most fields of a record given to the extractors

-----------------------------------------------------------------------------
(* Values *)

\* thousandths in one unit
Milli == 10 * 10 * 10

VNone == [t |-> "none"]
VInt(i) == [t |-> "int", n |-> i]
VFloat(m) == [t |-> "float", m |-> m]
VStr(s) == [t |-> "str", s |-> s]
VList(xs) == [t |-> "list", items |-> xs]
VDict(f) == [t |-> "dict", d |-> f]

\* {}
EmptyDict == VDict(<<>>)

\* dict.get(k, default)
Get(f, k, default) == IF k \in DOMAIN f THEN f[k] ELSE default

-----------------------------------------------------------------------------
(* Fractions *)

Abs(x) == IF x < 0 THEN -x ELSE x

RECURSIVE GCD(_, _)
GCD(a, b) == IF b = 0 THEN a ELSE GCD(b, a % b)

\* n/d in lowest terms, d > 0
Rat(n, d) == LET g == GCD(Abs(n), d) IN [n |-> n \div g, d |-> d \div g]

Zero == Rat(0, 1)

RatLeq(a, b) == a.n * b.d <= b.n * a.d

RECURSIVE Sum(_)
Sum(xs) == IF xs = <<>> THEN 0 ELSE Head(xs) + Sum(Tail(xs))

\* float(mean(xs)) if xs else 0.0
MeanOrZero(xs) == IF xs = <<>> THEN Zero ELSE Rat(Sum(xs), Len(xs))

-----------------------------------------------------------------------------
(* p95 *)

RECURSIVE Insert(_, _)
Insert(x, s) ==
    IF s = <<>> THEN <<x>>
    ELSE IF x < Head(s) THEN <<x>> \o s
    ELSE <<Head(s)>> \o Insert(x, Tail(s))

\* sorted(values): ascending
RECURSIVE Sorted(_)
Sorted(xs) == IF xs = <<>> THEN <<>> ELSE Insert(Head(xs), Sorted(Tail(xs)))

\* the constant 0.95 is PosNum / PosDen
PosNum == 19
PosDen == 20

\* int(math.floor(pos)) for pos = 0.95 * (n - 1)
P95Lo(n) == (PosNum * (n - 1)) \div PosDen

\* int(math.ceil(pos)) for pos = 0.95 * (n - 1)
P95Hi(n) == -((-(PosNum * (n - 1))) \div PosDen)

\* a p95 that takes the upper neighbour instead of interpolating
P95NearestRank(s, n, lo, hi) == Rat(s[hi + 1], 1)

\* s[lo] + frac * (s[hi] - s[lo]) with frac = pos - lo; s is 0-indexed in the source
P95Interpolate(s, n, lo, hi) ==
    Rat(PosDen * s[lo + 1] + (PosNum * (n - 1) - PosDen * lo) * (s[hi + 1] - s[lo + 1]),
        PosDen)

p95(values) ==
    IF values = <<>> THEN Zero
    ELSE LET s == Sorted(values)
             n == Len(s)
         IN  IF n = 1 THEN Rat(s[1], 1)
             ELSE LET lo == P95Lo(n)
                      hi == P95Hi(n)
                  IN  IF lo = hi THEN Rat(s[lo + 1], 1)
                      ELSE P95Interpolate(s, n, lo, hi)

-----------------------------------------------------------------------------
(* Strings, as sequences of one-character strings *)

\* str.strip(): leading and trailing blanks removed
RECURSIVE LStrip(_)
LStrip(s) == IF s # <<>> /\ Head(s) = " " THEN LStrip(Tail(s)) ELSE s

RECURSIVE RStrip(_)
RStrip(s) ==
    IF s # <<>> /\ s[Len(s)] = " " THEN RStrip(SubSeq(s, 1, Len(s) - 1)) ELSE s

Strip(s) == RStrip(LStrip(s))

DigitVal ==
    "0" :> 0 @@ "1" :> 1 @@ "2" :> 2 @@ "3" :> 3 @@ "4" :> 4 @@
    "5" :> 5 @@ "6" :> 6 @@ "7" :> 7 @@ "8" :> 8 @@ "9" :> 9

DigitChar == <<"0", "1", "2", "3", "4", "5", "6", "7", "8", "9">>

AllDigits(s) == \A i \in 1..Len(s) : s[i] \in DOMAIN DigitVal

RECURSIVE DigitsValue(_)
DigitsValue(s) ==
    IF s = <<>> THEN 0
    ELSE 10 * DigitsValue(SubSeq(s, 1, Len(s) - 1)) + DigitVal[s[Len(s)]]

RECURSIVE Pow10(_)
Pow10(k) == IF k = 0 THEN 1 ELSE 10 * Pow10(k - 1)

\* the digits after the point, in thousandths (decimals beyond the third are dropped;
\* the strings of the model have none)
FracValue(s) ==
    IF Len(s) <= 3 THEN DigitsValue(s) * Pow10(3 - Len(s))
    ELSE DigitsValue(SubSeq(s, 1, 3))

\* the unsigned decimal literals float() accepts over the model's alphabet:
\* digits, digits "." , "." digits, digits "." digits
UnsignedFloat(s) ==
    LET dots == {i \in 1..Len(s) : s[i] = "."}
    IN  IF dots = {} THEN
            IF s # <<>> /\ AllDigits(s)
            THEN [ok |-> TRUE, m |-> Milli * DigitsValue(s)]
            ELSE [ok |-> FALSE]
        ELSE LET p == CHOOSE i \in dots : \A j \in dots : i <= j
                 whole == SubSeq(s, 1, p - 1)
                 frac == SubSeq(s, p + 1, Len(s))
             IN  IF AllDigits(whole) /\ AllDigits(frac) /\ Len(whole) + Len(frac) > 0
                 THEN [ok |-> TRUE, m |-> Milli * DigitsValue(whole) + FracValue(frac)]
                 ELSE [ok |-> FALSE]

\* float(s) for a str s: blanks around the literal are ignored, one sign is allowed;
\* [ok |-> FALSE] stands for ValueError
FloatOfStr(s) ==
    LET t == Strip(s)
    IN  IF t # <<>> /\ Head(t) = "-" THEN
            LET u == UnsignedFloat(Tail(t))
            IN  IF u.ok THEN [ok |-> TRUE, m |-> -u.m] ELSE u
        ELSE IF t # <<>> /\ Head(t) = "+" THEN UnsignedFloat(Tail(t))
        ELSE UnsignedFloat(t)

\* float(x): [ok |-> FALSE] stands for ValueError / TypeError
FloatOf(x) ==
    CASE x.t = "int" -> [ok |-> TRUE, m |-> Milli * x.n]
      [] x.t = "float" -> [ok |-> TRUE, m |-> x.m]
      [] x.t = "str" -> FloatOfStr(x.s)
      [] OTHER -> [ok |-> FALSE]

\* the except branch of to_number
ToNumberFailure == 0

\* to_number, the value handed to float(): a str is stripped, loses one trailing "%"
\* and is stripped again
ToNumberArg(x) ==
    IF x.t = "str"
    THEN LET s == Strip(x.s)
         IN  IF s # <<>> /\ s[Len(s)] = "%"
             THEN VStr(Strip(SubSeq(s, 1, Len(s) - 1)))
             ELSE VStr(s)
    ELSE x

to_number(x) ==
    LET f == FloatOf(ToNumberArg(x))
    IN  IF f.ok THEN f.m ELSE ToNumberFailure

RECURSIVE NatChars(_)
NatChars(n) ==
    IF n < 10 THEN <<DigitChar[n + 1]>>
    ELSE NatChars(n \div 10) \o <<DigitChar[(n % 10) + 1]>>

\* str(x) for the scalars the model uses as region identifiers
PyStr(x) ==
    CASE x.t = "str" -> x.s
      [] x.t = "int" -> IF x.n < 0 THEN <<"-">> \o NatChars(-x.n) ELSE NatChars(x.n)
      [] x.t = "none" -> <<"N", "o", "n", "e">>

ToLower ==
    "A" :> "a" @@ "B" :> "b" @@ "C" :> "c" @@ "D" :> "d" @@ "E" :> "e" @@
    "F" :> "f" @@ "G" :> "g" @@ "H" :> "h" @@ "I" :> "i" @@ "J" :> "j" @@
    "K" :> "k" @@ "L" :> "l" @@ "M" :> "m" @@ "N" :> "n" @@ "O" :> "o" @@
    "P" :> "p" @@ "Q" :> "q" @@ "R" :> "r" @@ "S" :> "s" @@ "T" :> "t" @@
    "U" :> "u" @@ "V" :> "v" @@ "W" :> "w" @@ "X" :> "x" @@ "Y" :> "y" @@
    "Z" :> "z"

\* str.lower()
Lower(s) == [i \in 1..Len(s) |-> IF s[i] \in DOMAIN ToLower THEN ToLower[s[i]] ELSE s[i]]

-----------------------------------------------------------------------------
(* extract_uptime_percent *)

candidates ==
    <<"uptime", "uptime_pct", "uptime_percent", "uptime_percentage",
      "availability", "availability_pct", "availability_percent",
      "uptime_ratio", "uptimeRatio", "up">>

\* the for loop over candidates[i..]: the first value that is present and not None
RECURSIVE UptimeScan(_, _)
UptimeScan(r, i) ==
    IF i > Len(candidates) THEN VNone
    ELSE IF candidates[i] \in DOMAIN r /\ Get(r, candidates[i], VNone).t # "none"
         THEN Get(r, candidates[i], VNone)
         ELSE UptimeScan(r, i + 1)

\* 1.5, the upper end of the ratio heuristic
RatioMax == 1500

\* a ratio heuristic that excludes 1.5 itself
RatioToPercentExclusive(num) == IF 0 <= num /\ num < RatioMax THEN 100 * num ELSE num

\* if 0 <= num <= 1.5: num *= 100.0
RatioToPercent(num) == IF 0 <= num /\ num <= RatioMax THEN 100 * num ELSE num

extract_uptime_percent(r) ==
    LET val == UptimeScan(r, 1)
    IN  IF val.t = "none" THEN 0 ELSE RatioToPercent(to_number(val))

-----------------------------------------------------------------------------
(* the per-region computations of do_POST *)

\* a latency lookup that skips a key holding None, as the uptime lookup does
LatencyFieldSkipNone(r) ==
    IF "latency_ms" \in DOMAIN r /\ r["latency_ms"].t # "none" THEN r["latency_ms"]
    ELSE IF "latency" \in DOMAIN r /\ r["latency"].t # "none" THEN r["latency"]
    ELSE Get(r, "ms", VInt(0))

\* r.get("latency_ms", r.get("latency", r.get("ms", 0)))
LatencyField(r) == Get(r, "latency_ms", Get(r, "latency", Get(r, "ms", VInt(0))))

ExtractLatency(r) == to_number(LatencyField(r))

\* str(r.get("region", "")).lower() == str(region).lower()
RegionMatches(r, region) ==
    Lower(PyStr(Get(r, "region", VStr(<<>>)))) = Lower(PyStr(region))

\* region_records: the records of the region, in dataset order
RegionRecords(recs, region) ==
    SelectSeq(recs, LAMBDA r : RegionMatches(r.d, region))

\* a breach test that also counts a latency equal to the threshold
IsBreachInclusive(v, threshold) == v >= threshold

\* v > threshold_ms
IsBreach(v, threshold) == v > threshold

\* sum(1 for v in latencies if v > threshold_ms)
Breaches(lats, threshold) ==
    Len(SelectSeq(lats, LAMBDA v : IsBreach(v, threshold)))

\* the dict appended to regions_out
RegionEntry(region, lats, ups, threshold) ==
    [region |-> PyStr(region),
     avg_latency |-> MeanOrZero(lats),
     p95_latency |-> p95(lats),
     avg_uptime |-> MeanOrZero(ups),
     breaches |-> Breaches(lats, threshold)]

-----------------------------------------------------------------------------
(* Inputs of the handler: the requests and the data files of the model *)

S_us == <<"u", "s">>
S_US == <<"U", "S">>
S_eu == <<"e", "u">>
S_EU == <<"E", "U">>
S_abc == <<"a", "b", "c">>

\* all sequences over S of length at most n
RECURSIVE SeqsUpTo(_, _)
SeqsUpTo(S, n) ==
    IF n = 0 THEN {<<>>}
    ELSE LET shorter == SeqsUpTo(S, n - 1)
         IN  shorter \cup {Append(s, x) : s \in {q \in shorter : Len(q) = n - 1}, x \in S}

RegionIds == {VStr(S_us), VStr(S_EU), VInt(1)}

\* values of the body's "regions": lists of identifiers, and values that are no list
RegionsValues ==
    {VList(s) : s \in SeqsUpTo(RegionIds, MaxRegions)}
        \cup {VInt(5), VNone, VStr(S_us)}

\* values of the body's "threshold_ms"
ThresholdValues ==
    {VInt(150), VNone, VStr(S_abc), VStr(<<"1", "5", "0", " ", "%">>)}

ObjectBodies ==
    {VDict(<<>>)}
        \cup {VDict("regions" :> r) : r \in RegionsValues}
        \cup {VDict("threshold_ms" :> th) : th \in ThresholdValues}
        \cup {VDict("regions" :> r @@ "threshold_ms" :> th) :
                  r \in RegionsValues, th \in ThresholdValues}

NonObjectBodies == {VList(<<VStr(S_us)>>), VStr(S_us), VInt(7), VNone}

\* the request body as sent: nothing, bytes that are not UTF-8, text that is not
\* JSON, or the text of a JSON value
RawBodies ==
    {[k |-> "empty"], [k |-> "bad_utf8"], [k |-> "invalid"]}
        \cup {[k |-> "json", val |-> v] : v \in ObjectBodies \cup NonObjectBodies}

\* POST requests: Content-Length is the body's length, is missing, or is no integer
PostRequests ==
    {[method |-> "POST", len |-> "ok", raw |-> b] : b \in RawBodies}
        \cup {[method |-> "POST", len |-> l, raw |-> [k |-> "json", val |-> VDict("regions" :> VList(<<VStr(S_us)>>))]] :
                  l \in {"absent", "bad"}}

Requests == {[method |-> "OPTIONS"]} \cup PostRequests

R1 == VDict("region" :> VStr(S_us) @@ "latency_ms" :> VInt(150) @@ "uptime" :> VFloat(990))
R2 == VDict("region" :> VStr(S_US) @@ "latency_ms" :> VInt(300)
            @@ "uptime_pct" :> VStr(<<"9", "5", "%">>))
R3 == VDict("region" :> VStr(S_eu) @@ "latency" :> VStr(<<"2", "0", "0", ".", "5">>)
            @@ "up" :> VInt(1))
R4 == VDict("region" :> VInt(1) @@ "ms" :> VInt(100))
R5 == VDict("region" :> VStr(S_eu) @@ "latency_ms" :> VNone @@ "latency" :> VInt(500)
            @@ "uptime" :> VNone @@ "availability" :> VFloat(1500))

RecordPool == {R1, R2, R3, R4, R5}

\* what the data file holds: a list of records, a mapping, or another JSON value
FileValues ==
    {VList(s) : s \in SeqsUpTo(RecordPool, MaxRecs)}
        \cup {VDict("records" :> VList(<<R1, R2>>)),
              VDict("records" :> VInt(3)),
              VDict("meta" :> VInt(1)),
              VInt(42),
              VList(<<VInt(1)>>),
              VList(<<R1, VStr(S_us)>>)}

\* the data file: absent, not JSON, or the text of a JSON value
Files ==
    {[k |-> "missing"], [k |-> "invalid"]} \cup {[k |-> "json", val |-> v] : v \in FileValues}

-----------------------------------------------------------------------------
(* What the handler writes *)

Status(code) == [e |-> "status", code |-> code]
Header(name, value) == [e |-> "header", name |-> name, value |-> value]
EndHeaders == [e |-> "end_headers"]
Body(payload) == [e |-> "body", payload |-> payload]

\* the send_header calls of _set_cors; a comma-separated value is the sequence of its items
_set_cors ==
    <<Header("Access-Control-Allow-Origin", <<"*">>),
      Header("Access-Control-Expose-Headers", <<"Access-Control-Allow-Origin">>),
      Header("Access-Control-Allow-Credentials", <<"false">>),
      Header("Access-Control-Allow-Methods", <<"POST", "GET", "OPTIONS">>),
      Header("Access-Control-Allow-Headers", <<"Content-Type", "Authorization">>)>>

ContentTypeJson == Header("Content-Type", <<"application/json">>)

\* do_OPTIONS: status, CORS headers, end of headers, no body
OptionsResponse == <<Status(200)>> \o _set_cors \o <<EndHeaders>>

\* an error response sent without the CORS headers
ErrorResponseNoCors(detail) ==
    <<Status(500), ContentTypeJson, EndHeaders,
      Body([error |-> "Failed to load data file", detail |-> detail])>>

\* the response of the except branch of the data load
ErrorResponse(detail) ==
    <<Status(500)>> \o _set_cors \o
    <<ContentTypeJson, EndHeaders,
      Body([error |-> "Failed to load data file", detail |-> detail])>>

\* the response at the end of do_POST
OkResponse(out) ==
    <<Status(200)>> \o _set_cors \o
    <<ContentTypeJson, EndHeaders, Body([regions |-> out])>>

-----------------------------------------------------------------------------
(* The handler *)

\* threshold_ms when the body has none
DefaultThreshold == 180

\* do_POST, reading the request: TRUE when int(Content-Length) or decode("utf-8") raises
ReadRaises(req) == req.len = "bad" \/ (req.len = "ok" /\ req.raw.k = "bad_utf8")

\* do_POST: body, from json.loads(raw) if raw else {} and its except branch
ParseBody(req) ==
    IF req.len = "absent" \/ req.raw.k = "empty" THEN EmptyDict
    ELSE IF req.raw.k = "invalid" THEN EmptyDict
    ELSE req.raw.val

\* body.get("regions", [])
RegionsOf(b) == Get(b.d, "regions", VList(<<>>))

\* to_number(body.get("threshold_ms", 180))
ThresholdOf(b) == to_number(Get(b.d, "threshold_ms", VInt(DefaultThreshold)))

\* records: data, or data["records"], when that is a list; else []
RecordsOf(data) ==
    LET recs == IF data.t = "dict" THEN Get(data.d, "records", data) ELSE data
    IN  IF recs.t = "list" THEN recs.items ELSE <<>>

\* for region in regions: a list gives its items, a str its characters; other values
\* of the model (None, an int) raise TypeError
Iterable(x) == x.t \in {"list", "str"}
Iter(x) == IF x.t = "list" THEN x.items ELSE [i \in 1..Len(x.s) |-> VStr(<<x.s[i]>>)]

\* r.get raises AttributeError on a record that is no dict
GetRaises(recs) == \E i \in 1..Len(recs) : recs[i].t # "dict"

\* an insert at the front instead of an append
PrependEntry(out, entry) == <<entry>> \o out

\* regions_out.append(...)
AppendEntry(out, entry) == Append(out, entry)

HInit ==
    /\ file \in Files
    /\ pc = "idle"
    /\ request = [method |-> "none"]
    /\ body = VNone
    /\ regions = VNone
    /\ threshold_ms = 0
    /\ records = <<>>
    /\ idx = 0
    /\ region_records = <<>>
    /\ latencies = <<>>
    /\ uptimes = <<>>
    /\ regions_out = <<>>
    /\ wire = <<>>

PIdle ==
    /\ p_values = <<>>
    /\ p_pc = "off"
    /\ p_result = Zero
    /\ p_swaps = 0

RIdle ==
    /\ r_rec = <<>>
    /\ r_pc = "off"
    /\ r_latency = 0
    /\ r_uptime = 0

do_OPTIONS ==
    /\ pc = "idle"
    /\ request' = [method |-> "OPTIONS"]
    /\ wire' = wire \o OptionsResponse
    /\ pc' = "done"
    /\ UNCHANGED <<file, body, regions, threshold_ms, records, idx, region_records,
                   latencies, uptimes, regions_out>>

\* do_POST, lines 84-89
do_POST_ReadBody(req) ==
    /\ pc = "idle"
    /\ request' = req
    /\ IF ReadRaises(req)
       THEN pc' = "crashed" /\ body' = body
       ELSE pc' = "fields" /\ body' = ParseBody(req)
    /\ UNCHANGED <<file, regions, threshold_ms, records, idx, region_records,
                   latencies, uptimes, regions_out, wire>>

\* do_POST, lines 91-92
do_POST_Fields ==
    /\ pc = "fields"
    /\ IF body.t # "dict"
       THEN pc' = "crashed" /\ UNCHANGED <<regions, threshold_ms>>
       ELSE /\ regions' = RegionsOf(body)
            /\ threshold_ms' = ThresholdOf(body)
            /\ pc' = "load"
    /\ UNCHANGED <<file, request, body, records, idx, region_records,
                   latencies, uptimes, regions_out, wire>>

\* do_POST, lines 95-104: the data file cannot be opened or parsed
do_POST_LoadFail ==
    /\ pc = "load"
    /\ file.k # "json"
    /\ wire' = wire \o ErrorResponse(file.k)
    /\ pc' = "done"
    /\ UNCHANGED <<file, request, body, regions, threshold_ms, records, idx,
                   region_records, latencies, uptimes, regions_out>>

\* do_POST, lines 95-97 and 106-112
do_POST_LoadOk ==
    /\ pc = "load"
    /\ file.k = "json"
    /\ records' = RecordsOf(file.val)
    /\ regions_out' = <<>>
    /\ idx' = 0
    /\ pc' = "loop"
    /\ UNCHANGED <<file, request, body, regions, threshold_ms, region_records,
                   latencies, uptimes, wire>>

\* do_POST, lines 114-134: one iteration of the loop, or the exception that ends it
do_POST_Region ==
    /\ pc = "loop"
    /\ \/ /\ ~Iterable(regions)
          /\ pc' = "crashed"
          /\ UNCHANGED <<idx, region_records, latencies, uptimes, regions_out>>
       \/ /\ Iterable(regions)
          /\ idx < Len(Iter(regions))
          /\ GetRaises(records)
          /\ pc' = "crashed"
          /\ UNCHANGED <<idx, region_records, latencies, uptimes, regions_out>>
       \/ /\ Iterable(regions)
          /\ idx < Len(Iter(regions))
          /\ ~GetRaises(records)
          /\ LET region == Iter(regions)[idx + 1]
                 rr == RegionRecords(records, region)
                 lats == [i \in 1..Len(rr) |-> ExtractLatency(rr[i].d)]
                 ups == [i \in 1..Len(rr) |-> extract_uptime_percent(rr[i].d)]
             IN  /\ region_records' = rr
                 /\ latencies' = lats
                 /\ uptimes' = ups
                 /\ regions_out' = AppendEntry(regions_out,
                                       RegionEntry(region, lats, ups, threshold_ms))
          /\ idx' = idx + 1
          /\ pc' = "loop"
    /\ UNCHANGED <<file, request, body, regions, threshold_ms, records, wire>>

\* do_POST, lines 137-143
do_POST_Send ==
    /\ pc = "loop"
    /\ Iterable(regions)
    /\ idx = Len(Iter(regions))
    /\ wire' = wire \o OkResponse(regions_out)
    /\ pc' = "done"
    /\ UNCHANGED <<file, request, body, regions, threshold_ms, records, idx,
                   region_records, latencies, uptimes, regions_out>>

Init == HInit /\ PIdle /\ RIdle

Next ==
    \/ do_OPTIONS /\ UNCHANGED <<pvars, rvars>>
    \/ (\E req \in PostRequests : do_POST_ReadBody(req)) /\ UNCHANGED <<pvars, rvars>>
    \/ do_POST_Fields /\ UNCHANGED <<pvars, rvars>>
    \/ do_POST_LoadFail /\ UNCHANGED <<pvars, rvars>>
    \/ do_POST_LoadOk /\ UNCHANGED <<pvars, rvars>>
    \/ do_POST_Region /\ UNCHANGED <<pvars, rvars>>
    \/ do_POST_Send /\ UNCHANGED <<pvars, rvars>>

Spec == Init /\ [][Next]_vars

-----------------------------------------------------------------------------
(* p95 called on its own *)

\* [((a * i) % m) + b for i in 1..n]
Pattern(n, a, m, b) == [i \in 1..n |-> ((a * i) % m) + b]

\* arguments of p95: every short list over a few values, and longer lists that are
\* ascending, scrambled, or full of repeats
P95Inputs ==
    SeqsUpTo(-1..2, MaxLen)
        \cup {Pattern(n, 1, 23, 0) : n \in 0..MaxLong}
        \cup {Pattern(n, 7, 23, -3) : n \in 0..MaxLong}
        \cup {Pattern(n, 3, 4, 10) : n \in 0..MaxLong}
        \cup {Pattern(n, 250, 1000, 0) : n \in 0..MaxLong}

\* xs with the elements at i and i + 1 exchanged
SwapAt(xs, i) ==
    [k \in 1..Len(xs) |-> IF k = i THEN xs[i + 1] ELSE IF k = i + 1 THEN xs[i] ELSE xs[k]]

PInit ==
    /\ p_values \in P95Inputs
    /\ p_pc = "input"
    /\ p_result = Zero
    /\ p_swaps = 0

P95Call ==
    /\ p_pc = "input"
    /\ p_result' = p95(p_values)
    /\ p_pc' = "done"
    /\ UNCHANGED <<p_values, p_swaps>>

\* the same values in another order, and p95 called on them
P95Reorder ==
    /\ p_pc = "done"
    /\ p_swaps < MaxSwaps
    /\ \E i \in 1..(Len(p_values) - 1) :
          /\ p_values' = SwapAt(p_values, i)
          /\ p_result' = p95(SwapAt(p_values, i))
    /\ p_swaps' = p_swaps + 1
    /\ UNCHANGED p_pc

HIdle ==
    /\ file = [k |-> "missing"]
    /\ pc = "off"
    /\ request = [method |-> "none"]
    /\ body = VNone
    /\ regions = VNone
    /\ threshold_ms = 0
    /\ records = <<>>
    /\ idx = 0
    /\ region_records = <<>>
    /\ latencies = <<>>
    /\ uptimes = <<>>
    /\ regions_out = <<>>
    /\ wire = <<>>

InitP95 == HIdle /\ PInit /\ RIdle

NextP95 ==
    \/ P95Call /\ UNCHANGED <<hvars, rvars>>
    \/ P95Reorder /\ UNCHANGED <<hvars, rvars>>

SpecP95 == InitP95 /\ [][NextP95]_vars

-----------------------------------------------------------------------------
(* the record extractors called on their own *)

FieldKeys ==
    {"latency_ms", "latency", "ms"} \cup {candidates[i] : i \in 1..Len(candidates)}

\* None, 0.987, 1.5, 1.501, 87, -0.5, "12.5%", "abc"
FieldValues ==
    {VNone, VFloat(987), VFloat(1500), VFloat(1501), VInt(87), VFloat(-500),
     VStr(<<"1", "2", ".", "5", "%">>), VStr(S_abc)}

\* every record with at most MaxFields of the keys, each with any of the values
RecordInputs ==
    UNION {[D -> FieldValues] : D \in {K \in SUBSET FieldKeys : Cardinality(K) <= MaxFields}}

RInit ==
    /\ r_rec \in RecordInputs
    /\ r_pc = "input"
    /\ r_latency = 0
    /\ r_uptime = 0

\* the latency of one record, as in the latencies comprehension of do_POST
CallExtractLatency ==
    /\ r_pc = "input"
    /\ r_latency' = ExtractLatency(r_rec)
    /\ r_pc' = "latency"
    /\ UNCHANGED <<r_rec, r_uptime>>

CallExtractUptime ==
    /\ r_pc = "latency"
    /\ r_uptime' = extract_uptime_percent(r_rec)
    /\ r_pc' = "uptime"
    /\ UNCHANGED <<r_rec, r_latency>>

InitRecord == HIdle /\ PIdle /\ RInit

NextRecord ==
    \/ CallExtractLatency /\ UNCHANGED <<hvars, pvars>>
    \/ CallExtractUptime /\ UNCHANGED <<hvars, pvars>>

SpecRecord == InitRecord /\ [][NextRecord]_vars

-----------------------------------------------------------------------------
(* Properties of p95 (under SpecP95) *)

\* the element at 0-based position k of the ascending order of xs, by counting
C8_Rank(xs, k) ==
    CHOOSE v \in {xs[i] : i \in 1..Len(xs)} :
        /\ Cardinality({i \in 1..Len(xs) : xs[i] < v}) <= k
        /\ k < Cardinality({i \in 1..Len(xs) : xs[i] <= v})

\* C8: p95 is the linear-interpolation percentile: [] gives 0.0, one element gives
\* itself; otherwise with pos = 0.95 * (n - 1), lo = floor(pos), hi = ceil(pos) the
\* result is s[lo] when lo = hi and s[lo] + (pos - lo) * (s[hi] - s[lo]) otherwise
\* ([1..10] gives 9.55); lo and hi lie in 0..n-1, the result lies between the minimum
\* and the maximum, and it does not depend on the order of the input.
C8_P95LinearInterpolation ==
    p_pc = "done" =>
        LET n == Len(p_values)
            pos20 == 19 * (n - 1)
            lo == CHOOSE k \in 0..n : 20 * k <= pos20 /\ pos20 < 20 * (k + 1)
            hi == CHOOSE k \in 0..n : 20 * (k - 1) < pos20 /\ pos20 <= 20 * k
            slo == C8_Rank(p_values, lo)
            shi == C8_Rank(p_values, hi)
        IN  /\ n = 0 => p_result = [n |-> 0, d |-> 1]
            /\ n = 1 => p_result = [n |-> p_values[1], d |-> 1]
            /\ n >= 2 =>
                  /\ lo \in 0..(n - 1) /\ hi \in 0..(n - 1)
                  /\ P95Lo(n) = lo /\ P95Hi(n) = hi
                  /\ IF lo = hi
                     THEN p_result = [n |-> slo, d |-> 1]
                     ELSE p_result.n * 20 =
                              p_result.d * (20 * slo + (pos20 - 20 * lo) * (shi - slo))
            /\ n >= 1 =>
                  /\ p_result.d > 0
                  /\ \E i \in 1..n : p_values[i] * p_result.d <= p_result.n
                  /\ \E i \in 1..n : p_result.n <= p_values[i] * p_result.d
            /\ p_values = [i \in 1..10 |-> i] => p_result = [n |-> 191, d |-> 20]
            /\ \A i \in 1..(n - 1) : p95(SwapAt(p_values, i)) = p_result

\* p95 was called on the numbers 1..10 in an order that is not ascending and gave 9.55
C8_Witness ==
    /\ p_pc = "done"
    /\ p_swaps = 1
    /\ Len(p_values) = 10
    /\ {p_values[i] : i \in 1..Len(p_values)} = 1..10
    /\ p_result = [n |-> 191, d |-> 20]

-----------------------------------------------------------------------------
(* Properties of the record extractors (under SpecRecord) *)

C9_Order ==
    <<"uptime", "uptime_pct", "uptime_percent", "uptime_percentage", "availability",
      "availability_pct", "availability_percent", "uptime_ratio", "uptimeRatio", "up">>

\* positions of C9_Order whose key r holds with a value that is not null
C9_Present(r) ==
    {i \in 1..Len(C9_Order) : C9_Order[i] \in DOMAIN r /\ r[C9_Order[i]] # VNone}

\* C9: extract_uptime_percent takes the value under the first key of the priority
\* order that is present and not null (a null is skipped in favour of a later alias),
\* gives 0.0 when there is none, and otherwise converts it to a number x and gives
\* 100 * x when 0 <= x <= 1.5 (1.5 gives 150.0, 0.987 gives 98.7) and x otherwise
\* (87.0 stays 87.0, a negative value is unchanged).
C9_UptimeFirstNonNullThenRatio ==
    r_pc = "uptime" =>
        LET present == C9_Present(r_rec)
        IN  IF present = {} THEN r_uptime = 0
            ELSE LET first == CHOOSE i \in present : \A j \in present : i <= j
                     val == r_rec[C9_Order[first]]
                     x == to_number(val)
                 IN  /\ r_uptime = IF 0 <= x /\ x <= 1500 THEN 100 * x ELSE x
                     /\ val = VFloat(1500) => r_uptime = 150000
                     /\ val = VFloat(987) => r_uptime = 98700
                     /\ val = VInt(87) => r_uptime = 87000
                     /\ val = VFloat(-500) => r_uptime = -500

\* a null under "uptime" was skipped and the 1.5 under a later alias became 150.0
C9_Witness ==
    /\ r_pc = "uptime"
    /\ "uptime" \in DOMAIN r_rec /\ r_rec["uptime"] = VNone
    /\ "up" \in DOMAIN r_rec /\ r_rec["up"] = VFloat(1500)
    /\ r_uptime = 150000

\* C10: the latency of a record is to_number of the value under the first of
\* latency_ms, latency, ms that is present, and 0 when none is; presence alone decides,
\* so a present key with a null or non-numeric value gives 0.0 and does not fall
\* through to a later alias.
C10_LatencyFirstPresentKey ==
    r_pc \in {"latency", "uptime"} =>
        /\ r_latency =
              (IF "latency_ms" \in DOMAIN r_rec THEN to_number(r_rec["latency_ms"])
               ELSE IF "latency" \in DOMAIN r_rec THEN to_number(r_rec["latency"])
               ELSE IF "ms" \in DOMAIN r_rec THEN to_number(r_rec["ms"])
               ELSE 0)
        /\ \A i \in 1..3 :
              LET keys == <<"latency_ms", "latency", "ms">>
              IN  (/\ keys[i] \in DOMAIN r_rec
                   /\ \A j \in 1..(i - 1) : keys[j] \notin DOMAIN r_rec
                   /\ r_rec[keys[i]] \in {VNone, VStr(S_abc)}) => r_latency = 0

\* latency_ms is present with null, latency holds 87: the latency is 0.0
C10_Witness ==
    /\ r_pc = "latency"
    /\ "latency_ms" \in DOMAIN r_rec /\ r_rec["latency_ms"] = VNone
    /\ "latency" \in DOMAIN r_rec /\ r_rec["latency"] = VInt(87)
    /\ r_latency = 0

-----------------------------------------------------------------------------
(* Properties of the handler (under Spec) *)

Ended == pc \in {"done", "crashed"}

IsPost == request.method = "POST"

\* the request ended in a 200 response
Answered200 == pc = "done" /\ wire # <<>> /\ wire[1] = Status(200)

\* the "regions" array of the 200 response
ResponseRegions == wire[Len(wire)].payload.regions

\* float() accepts the value once to_number has trimmed it
C1_Parseable(v) == FloatOf(ToNumberArg(v)).ok

\* C1: the threshold is 180 whenever the body's threshold_ms is absent or unparseable
\* (a non-numeric string, null); only a parseable threshold_ms replaces 180.
C1_ThresholdDefaultsTo180 ==
    (IsPost /\ pc \in {"load", "loop", "done"}) =>
        IF "threshold_ms" \in DOMAIN body.d /\ C1_Parseable(body.d["threshold_ms"])
        THEN threshold_ms = to_number(body.d["threshold_ms"])
        ELSE threshold_ms = 180 * Milli

\* the body is one of the kinds the claim lists: empty, invalid JSON, or valid JSON
C2_BodyArrived ==
    IsPost /\ request.len = "ok" /\ request.raw.k \in {"empty", "invalid", "json"}

\* the body is not a JSON object
C2_Malformed ==
    request.raw.k \in {"empty", "invalid"} \/ request.raw.val.t # "dict"

\* C2: whatever the body (empty, invalid JSON, valid JSON of any type), a malformed
\* one is treated as the empty object (regions empty, threshold 180), and with a
\* loadable data file the request always ends in a 200 response.
C2_AnyBodyEndsIn200 ==
    (Ended /\ C2_BodyArrived /\ file.k = "json") =>
        /\ Answered200
        /\ C2_Malformed =>
              /\ regions = VList(<<>>)
              /\ threshold_ms = 180 * Milli
              /\ ResponseRegions = <<>>

\* a request whose body is a JSON object with a list (or no) "regions"
C3_WellFormedRequest ==
    /\ IsPost
    /\ request.len = "ok"
    /\ request.raw.k = "json"
    /\ request.raw.val.t = "dict"
    /\ RegionsOf(request.raw.val).t = "list"

\* the file content yields a list of record-mappings: a list, or the list under
\* "records" of a mapping, all of whose elements are mappings
C3_ListOfMappings(data) ==
    LET recs == IF data.t = "dict"
                THEN (IF "records" \in DOMAIN data.d THEN data.d["records"] ELSE VNone)
                ELSE data
    IN  /\ recs.t = "list"
        /\ \A i \in 1..Len(recs.items) : recs.items[i].t = "dict"

C3_AllZero(entry) ==
    /\ entry.avg_latency = [n |-> 0, d |-> 1]
    /\ entry.p95_latency = [n |-> 0, d |-> 1]
    /\ entry.avg_uptime = [n |-> 0, d |-> 1]
    /\ entry.breaches = 0

\* C3: for every parsed data file the request never fails because of the dataset's
\* shape: whatever is not a list of record-mappings counts as an empty dataset, and
\* the request ends in a 200 response whose regions all have statistics 0.0, breaches 0.
C3_DatasetShapeNeverFails ==
    (Ended /\ C3_WellFormedRequest /\ file.k = "json") =>
        /\ Answered200
        /\ ~C3_ListOfMappings(file.val) =>
              \A i \in 1..Len(ResponseRegions) : C3_AllZero(ResponseRegions[i])

\* C4: if the data file cannot be opened or parsed, do_POST sends exactly one
\* response, with status 500 and a body holding error and detail, before any region
\* statistics are computed; never a 500 and a 200, never a 500 with region results.
C4_LoadFailureSends500 ==
    (Ended /\ C2_BodyArrived /\ file.k # "json") =>
        /\ Cardinality({i \in 1..Len(wire) : wire[i].e = "status"}) = 1
        /\ wire[1] = Status(500)
        /\ \E i \in 1..Len(wire) :
              wire[i].e = "body" /\ DOMAIN wire[i].payload = {"error", "detail"}
        /\ regions_out = <<>>

\* between the status line at i and the end of headers at j there is a header `name`
\* whose value has the item
C5_HasHeader(i, j, name, item) ==
    \E k \in (i + 1)..(j - 1) :
        /\ wire[k].e = "header"
        /\ wire[k].name = name
        /\ \E q \in 1..Len(wire[k].value) : wire[k].value[q] = item

C6_EntryAlone(recs, region, threshold) ==
    LET rr == RegionRecords(recs, region)
    IN  RegionEntry(region,
                    [i \in 1..Len(rr) |-> ExtractLatency(rr[i].d)],
                    [i \in 1..Len(rr) |-> extract_uptime_percent(rr[i].d)],
                    threshold)

\* C6: a successful POST answers with one entry per requested region, in request
\* order, entry i named by the string form of region i; a region requested twice
\* gets two identical entries, and an entry depends only on the records, its region
\* and the threshold.
C6_OneEntryPerRegionInOrder ==
    (IsPost /\ Answered200) =>
        LET req == Iter(RegionsOf(body))
            out == ResponseRegions
        IN  /\ Len(out) = Len(req)
            /\ \A i \in 1..Len(req) :
                  /\ out[i].region = PyStr(req[i])
                  /\ out[i] = C6_EntryAlone(records, req[i], ThresholdOf(body))
            /\ \A i, j \in 1..Len(req) : req[i] = req[j] => out[i] = out[j]

\* two different regions were requested and their entries differ
C6_Witness ==
    /\ IsPost
    /\ Answered200
    /\ Len(ResponseRegions) = 2
    /\ ResponseRegions[1].region = S_EU
    /\ ResponseRegions[2].region = S_us
    /\ ResponseRegions[1].avg_latency # ResponseRegions[2].avg_latency
    /\ ResponseRegions[2].breaches > 0

\* the positions of the dataset's records that belong to the region
C7_RegionPositions(region) ==
    {k \in 1..Len(records) :
        Lower(PyStr(Get(records[k].d, "region", VStr(<<>>)))) = Lower(PyStr(region))}

\* C7: breaches is the number of records whose region field, as a string compared
\* case-insensitively, equals the requested region and whose latency is strictly
\* greater than the threshold (equal is no breach); a region matching no record gets
\* breaches 0 and 0.0 for the three statistics.
C7_BreachesCountStrictlyGreater ==
    (IsPost /\ Answered200) =>
        LET req == Iter(regions)
            out == ResponseRegions
        IN  \A i \in 1..Len(out) :
                LET mine == C7_RegionPositions(req[i])
                IN  /\ out[i].breaches =
                          Cardinality({k \in mine :
                              ExtractLatency(records[k].d) > threshold_ms})
                    /\ mine = {} => C3_AllZero(out[i])

\* "us" matched the records of "us" and "US", one latency equal to the threshold
\* (no breach) and one above it (a breach)
C7_Witness ==
    /\ IsPost
    /\ Answered200
    /\ threshold_ms = 150 * Milli
    /\ records = <<R1, R2>>
    /\ Len(ResponseRegions) >= 1
    /\ ResponseRegions[1].region = S_us
    /\ ResponseRegions[1].breaches = 1

====
